---- MODULE Spec2Model ----
(***************************************************************************)
(* adc128s052-tool: one invocation of main() in src/adc128s052-tool.c.     *)
(*                                                                         *)
(* The state is the invocation's command line (channels, samples,          *)
(* output_file), the locals of main() (fd, ret, len, the two transfer      *)
(* buffers, the loop counters, min/max/sum), and what the invocation does  *)
(* to the outside: the bytes clocked out on the bus, the console report,   *)
(* the output file, and how the process ends.  The collaborators (open,    *)
(* ioctl, malloc, write) answer nondeterministically with every result     *)
(* their interface allows.  The host is little-endian, as the code's       *)
(* unconditional __bswap_16 assumes; int is 32 bits wide.                  *)
(***************************************************************************)
EXTENDS Integers, Sequences, FiniteSets, TLC

\* ------------------------------------------------------------------ bounds

\* Longest channel string given on the command line.
MaxLen == 2

\* Largest ordinary sample count given on the command line.
MaxSamples == 2

\* ------------------------------------------------------- program constants

\* Largest value of `int len` / `static int samples`.
IntMax == 2147483647

IntMin == -IntMax - 1

\* Number of slots of sum[], min[], max[].
NSlots == 16

\* The seed of min[ch]: 0xffff.
MinSeed == 65535

\* A byte or array slot that was never written (malloc'd memory, the
\* uninitialised locals sum/min/max).
Indet == -1

\* ------------------------------------------------------------------ inputs

\* Characters a channel string is made of: '0', '1' and the non-digit 'A'.
Chars == {48, 49, 65}

Digits == 48..57

ChannelInputs == UNION {[1..n -> Chars] : n \in 0..MaxLen}

\* atoi() results: negative, zero, ordinary, and two that overflow `len`.
SampleInputs == (-1..MaxSamples) \cup {1073741824, IntMax}

\* NULL stands for "no -o option".
NULL == "NULL"

OutputInputs == {NULL, "results.bin"}

\* What the device may clock back for one 16-bit word, as (first, second)
\* byte on the wire: 0x0102 and 0x0032.
RxWords == {<<1, 2>>, <<0, 50>>}

\* What the device clocks back during the first command word, before any
\* requested conversion is available.
RxPrefix == <<255, 254>>

\* What a never-written 16-bit word of a block may turn out to hold when it
\* is read, as its two bytes.
GarbageWords == {<<0, 0>>, <<255, 255>>}

\* -------------------------------------------------------- integer helpers

\* Two's-complement addition on 32 bits.
WrapAdd32(a, b) ==
  IF b >= 0
    THEN IF a > IntMax - b THEN IntMin + (a - (IntMax - b) - 1) ELSE a + b
    ELSE IF a < IntMin - b THEN IntMax - ((IntMin - b) - a - 1) ELSE a + b

\* k * n on 32 bits, k >= 0.
RECURSIVE WrapMul32(_, _)
WrapMul32(k, n) == IF k = 0 THEN 0 ELSE WrapAdd32(WrapMul32(k - 1, n), n)

\* C's % (the quotient truncates toward zero).
CRem(a, b) == IF a >= 0 THEN a % b ELSE -((-a) % b)

\* strlen(channels) * 2 * samples + 2, stored in `int len`.
BlockLen(L, N) == WrapAdd32(WrapMul32(2 * L, N), 2)

\* (channels[j] - 0x30) << 3, stored in an unsigned short.
CommandWord(c) == ((c - 48) * 8) % 65536

\* (channels[j] - 0x30) % 16
ChanIndex(c) == CRem(c - 48, 16)

\* The unsigned short a little-endian host reads from bytes b0, b1.
HostWord(b0, b1) == b0 + 256 * b1

Bswap16(w) == (w % 256) * 256 + (w \div 256)

\* The exit status of `return ret`: the low 8 bits.
ExitCode(r) == r % 256

\* Status of a process killed by SIGABRT (abort()), SIGSEGV, SIGFPE.
SigAbrtStatus == 134

SigSegvStatus == 139

SigFpeStatus == 136

\* ------------------------------------------------------------------- state

VARIABLES
  channels,     \* static char *channels, as character codes
  samples,      \* static int samples
  output_file,  \* static char *output_file, NULL when absent
  pc,           \* the statement of main() about to run
  fd,           \* "none", "device", "output" or "closed"
  ret,          \* int ret
  len,          \* int len
  tx_buf,       \* contents of the block tr.tx_buf points to
  rx_buf,       \* contents of the block tr.rx_buf points to
  heap,         \* the malloc'd blocks not yet freed
  i, j, ptr,    \* loop counters; ptr is a byte offset into tx_buf / rx_buf
  min, max, sum,
  report,       \* the "Statistics ch[..]" lines printed so far
  file,         \* bytes of the output file
  fileOpened,   \* the output file was opened (created and truncated)
  sent,         \* bytes clocked out by the exchange
  xfers,        \* number of SPI_IOC_MESSAGE exchanges issued
  xferRet,      \* what the exchange returned
  oob,          \* a store or load fell outside its block
  err,          \* the message pabort() printed
  exit          \* how the process ended

inputs == <<channels, samples, output_file>>

bufs == <<tx_buf, rx_buf, heap>>

loop == <<i, j, ptr>>

stats == <<min, max, sum>>

bus == <<sent, xfers, xferRet>>

out == <<file, fileOpened>>

vars == <<inputs, pc, fd, ret, len, bufs, loop, stats, report, out, bus, oob,
          err, exit>>

L == Len(channels)

Running == [how |-> "running", status |-> 0]

\* parse_opts(): the globals hold whatever the command line gave.
Init ==
  /\ channels \in ChannelInputs
  /\ samples \in SampleInputs
  /\ output_file \in OutputInputs
  /\ pc = "open"
  /\ fd = "none"
  /\ ret = 0
  /\ len = 0
  /\ tx_buf = <<>>
  /\ rx_buf = <<>>
  /\ heap = {}
  /\ i = 0 /\ j = 0 /\ ptr = 0
  /\ min = [c \in 0..(NSlots - 1) |-> Indet]
  /\ max = [c \in 0..(NSlots - 1) |-> Indet]
  /\ sum = [c \in 0..(NSlots - 1) |-> Indet]
  /\ report = <<>>
  /\ file = <<>>
  /\ fileOpened = FALSE
  /\ sent = <<>>
  /\ xfers = 0
  /\ xferRet = 0
  /\ oob = FALSE
  /\ err = ""
  /\ exit = Running

\* pabort(s): print s and abort(); nothing is closed or freed.
pabort(s) ==
  /\ pc' = "aborted"
  /\ err' = s
  /\ exit' = [how |-> "abort", status |-> SigAbrtStatus]

\* The process is killed by a signal in the middle of a statement.
Killed(status) ==
  /\ pc' = "crashed"
  /\ exit' = [how |-> "signal", status |-> status]
  /\ err' = err

Goto(l) == pc' = l /\ err' = err /\ exit' = exit

\* ----------------------------------------------------------- device set-up

\* fd = open(device, O_RDWR)
OpenDevice ==
  /\ pc = "open"
  /\ \/ fd' = "device" /\ Goto("wr_mode")
     \/ fd' = fd /\ pabort("Can't open device")
  /\ UNCHANGED <<inputs, ret, len, bufs, loop, stats, report, out, bus, oob>>

\* One configuration ioctl: 0, or -1 and abort.
ConfigIoctl(at, next, msg) ==
  /\ pc = at
  /\ \/ ret' = 0 /\ Goto(next)
     \/ ret' = -1 /\ pabort(msg)
  /\ UNCHANGED <<inputs, fd, len, bufs, loop, stats, report, out, bus, oob>>

SetMode == ConfigIoctl("wr_mode", "rd_mode", "Can't set spi mode")

GetMode == ConfigIoctl("rd_mode", "wr_speed", "Can't get spi mode")

SetSpeed == ConfigIoctl("wr_speed", "rd_speed", "Can't set max speed hz")

GetSpeed == ConfigIoctl("rd_speed", "len", "Can't get max speed hz")

\* ---------------------------------------------------------------- buffers

\* int len = strlen(channels) * 2 * samples + 2
ComputeLen ==
  /\ pc = "len"
  /\ len' = BlockLen(L, samples)
  /\ Goto("malloc_tx")
  /\ UNCHANGED <<inputs, fd, ret, bufs, loop, stats, report, out, bus, oob>>

\* A fresh block of n bytes, none of them written.
FreshBlock(n) == [k \in 1..n |-> Indet]

\* malloc(len): a negative len converts to a size no allocator grants; any
\* other request may be granted or refused.
MallocTx ==
  /\ pc = "malloc_tx"
  /\ \/ /\ len >= 0
        /\ tx_buf' = FreshBlock(len)
        /\ heap' = heap \cup {"tx_buf"}
        /\ Goto("malloc_rx")
     \/ /\ UNCHANGED <<tx_buf, heap>>
        /\ pabort("Cannot allocate tx_buf\n")
  /\ rx_buf' = rx_buf
  /\ UNCHANGED <<inputs, fd, ret, len, loop, stats, report, out, bus, oob>>

MallocRx ==
  /\ pc = "malloc_rx"
  /\ \/ /\ len >= 0
        /\ rx_buf' = FreshBlock(len)
        /\ heap' = heap \cup {"rx_buf"}
        /\ Goto("fill")
     \/ /\ UNCHANGED <<rx_buf, heap>>
        /\ pabort("Cannot allocate rx_buf\n")
  /\ tx_buf' = tx_buf
  /\ i' = 0 /\ j' = 0 /\ ptr' = 0
  /\ UNCHANGED <<inputs, fd, ret, len, stats, report, out, bus, oob>>

\* The loop counters after one more (i, j) slot.
NextI == IF j + 1 = L THEN i + 1 ELSE i

NextJ == IF j + 1 = L THEN 0 ELSE j + 1

\* The block with the unsigned short w stored at byte offset p.
StoreWord(buf, p, w) ==
  [buf EXCEPT ![p + 1] = w % 256, ![p + 2] = w \div 256]

\* *ptr++ = (channels[j] - 0x30) << 3.  A store past the end of the block
\* happens only when len wrapped, and then the loop runs at least 2^31
\* bytes past it: the process dies of SIGSEGV.
FillWord ==
  /\ pc = "fill"
  /\ i < samples /\ j < L
  /\ IF ptr + 2 <= len
       THEN /\ tx_buf' = StoreWord(tx_buf, ptr, CommandWord(channels[j + 1]))
            /\ i' = NextI /\ j' = NextJ /\ ptr' = ptr + 2
            /\ oob' = oob
            /\ Goto("fill")
       ELSE /\ oob' = TRUE
            /\ Killed(SigSegvStatus)
            /\ UNCHANGED <<tx_buf, loop>>
  /\ UNCHANGED <<inputs, fd, ret, len, rx_buf, heap, stats, report, out, bus>>

FillDone ==
  /\ pc = "fill"
  /\ ~(i < samples /\ j < L)
  /\ Goto("xfer")
  /\ UNCHANGED <<inputs, fd, ret, len, bufs, loop, stats, report, out, bus, oob>>

\* --------------------------------------------------------------- transfer

\* What ioctl(fd, SPI_IOC_MESSAGE(1), &tr) may return for a block of n
\* bytes: an error, the whole length, or fewer bytes than asked.
XferResults(n) == {-1, n} \cup (IF n > 1 THEN {1} ELSE {})

\* The bytes of a buffer as the driver reads them: a never-written byte
\* holds whatever g says of its word.
Resolve(buf, g) ==
  [k \in 1..Len(buf) |->
     IF buf[k] = Indet THEN g[(k + 1) \div 2][((k - 1) % 2) + 1] ELSE buf[k]]

\* The bytes of a sequence of (first, second) byte pairs.
Flatten(ws) == [k \in 1..(2 * Len(ws)) |-> ws[(k + 1) \div 2][((k - 1) % 2) + 1]]

\* ret = ioctl(fd, SPI_IOC_MESSAGE(1), &tr); if (ret < 1) pabort(...).
\* A result of at least 1 leaves some contents in every byte of rx_buf:
\* received ones, and arbitrary ones where the transfer fell short.
Transfer ==
  /\ pc = "xfer"
  /\ xfers' = xfers + 1
  /\ \E g \in [{w \in 1..(Len(tx_buf) \div 2) : tx_buf[2 * w] = Indet}
                 -> GarbageWords] :
       sent' = Resolve(tx_buf, g)
  /\ \E r \in XferResults(len) :
       /\ ret' = r
       /\ xferRet' = r
       /\ IF r < 1
            THEN /\ rx_buf' = rx_buf
                 /\ pabort("Can't send spi message")
            ELSE /\ \E ws \in [1..((len \div 2) - 1) -> RxWords] :
                      rx_buf' = RxPrefix \o Flatten(ws)
                 /\ Goto("close_dev")
  /\ UNCHANGED <<inputs, fd, len, tx_buf, heap, loop, stats, report, out, oob>>

\* close(fd); ptr = (unsigned short*) (tr.rx_buf + 2)
CloseDevice ==
  /\ pc = "close_dev"
  /\ fd' = "closed"
  /\ i' = 0 /\ j' = 0 /\ ptr' = 2
  /\ Goto("stat")
  /\ UNCHANGED <<inputs, ret, len, bufs, stats, report, out, bus, oob>>

\* ------------------------------------------------------------- statistics

\* __bswap_16(*ptr) for ptr at byte offset p of buf.
LoadSample(buf, p) == Bswap16(HostWord(buf[p + 1], buf[p + 2]))

\* Seeded that re-seeds the slot in every iteration, not only when i == 0.
SeededAlways(first, old, seed) == seed

\* Seeded that seeds a slot only while nothing was stored in it, so once per
\* channel rather than at every first-pass position.
SeededOnce(first, old, seed) == IF old = Indet THEN seed ELSE old

\* The accumulator slot an (i, j) iteration folds its value into.
Seeded(first, old, seed) == IF first THEN seed ELSE old

\* One iteration of the statistics loop body.
StatStep ==
  /\ pc = "stat"
  /\ i < samples /\ j < L
  /\ IF ptr + 2 <= len
       THEN LET ch == ChanIndex(channels[j + 1])
                val == LoadSample(rx_buf, ptr)
                m0 == Seeded(i = 0, min[ch], MinSeed)
                x0 == Seeded(i = 0, max[ch], 0)
                s0 == Seeded(i = 0, sum[ch], 0)
            IN  /\ min' = [min EXCEPT ![ch] = IF val < m0 THEN val ELSE m0]
                /\ max' = [max EXCEPT ![ch] = IF val > x0 THEN val ELSE x0]
                /\ sum' = [sum EXCEPT ![ch] = s0 + val]
                /\ i' = NextI /\ j' = NextJ /\ ptr' = ptr + 2
                /\ oob' = oob
                /\ Goto("stat")
       ELSE /\ oob' = TRUE
            /\ Killed(SigSegvStatus)
            /\ UNCHANGED <<loop, stats>>
  /\ UNCHANGED <<inputs, fd, ret, len, bufs, report, out, bus>>

StatDone ==
  /\ pc = "stat"
  /\ ~(i < samples /\ j < L)
  /\ j' = 0 /\ i' = i /\ ptr' = ptr
  /\ Goto("report")
  /\ UNCHANGED <<inputs, fd, ret, len, bufs, stats, report, out, bus, oob>>

\* sum[ch] / samples: a uint64_t quotient; samples converts to uint64_t.
Average(s, n) ==
  IF s = Indet \/ n = 0 THEN Indet ELSE IF n < 0 THEN 0 ELSE s \div n

Minus(a, b) == IF a = Indet \/ b = Indet THEN Indet ELSE a - b

\* The numbers one "Statistics ch[%d]" line prints.
StatLine(ch) ==
  LET avg == Average(sum[ch], samples)
  IN  [ch |-> ch, min |-> min[ch], avg |-> avg, max |-> max[ch],
       dmin |-> Minus(avg, min[ch]), dmax |-> Minus(max[ch], avg)]

\* One iteration of the report loop.  With samples == 0 the quotient is a
\* division by zero: the process dies of SIGFPE, or prints whatever the
\* division left behind.
ReportLine ==
  /\ pc = "report"
  /\ j < L
  /\ LET ch == ChanIndex(channels[j + 1])
     IN  \/ /\ report' = Append(report, StatLine(ch))
            /\ j' = j + 1
            /\ Goto("report")
         \/ /\ samples = 0
            /\ Killed(SigFpeStatus)
            /\ UNCHANGED <<report, j>>
  /\ UNCHANGED <<inputs, fd, ret, len, bufs, i, ptr, stats, out, bus, oob>>

ReportDone ==
  /\ pc = "report"
  /\ ~(j < L)
  /\ Goto("out")
  /\ UNCHANGED <<inputs, fd, ret, len, bufs, loop, stats, report, out, bus, oob>>

\* ------------------------------------------------------------ output file

\* if (output_file) is false.
SkipOutput ==
  /\ pc = "out"
  /\ output_file = NULL
  /\ Goto("free_tx")
  /\ UNCHANGED <<inputs, fd, ret, len, bufs, loop, stats, report, out, bus, oob>>

\* fd = open(output_file, O_WRONLY | O_CREAT | O_TRUNC, 0666)
OpenOutput ==
  /\ pc = "out"
  /\ output_file # NULL
  /\ \/ /\ fd' = "output"
        /\ fileOpened' = TRUE
        /\ file' = <<>>
        /\ Goto("write")
     \/ /\ fd' = "none"
        /\ UNCHANGED <<file, fileOpened>>
        /\ pabort("could not open output file")
  /\ UNCHANGED <<inputs, ret, len, bufs, loop, stats, report, bus, oob>>

\* What write(fd, buf, n) may return: an error, all n bytes, or fewer.
WriteResults(n) == {-1, n} \cup (IF n > 0 THEN {n - 1} ELSE {})

\* FileImage without the 2-byte skip: the write starts at rx_buf itself.
FileImageFromStart(buf, w) == SubSeq(buf, 1, w)

\* The first w bytes that write(fd, (void*)tr.rx_buf+2, ...) takes.
FileImage(buf, w) == SubSeq(buf, 3, 2 + w)

\* ret = write(fd, rx_buf+2, len-2); if (ret != len-2) pabort(...).
WriteOutput ==
  /\ pc = "write"
  /\ \E w \in WriteResults(len - 2) :
       /\ ret' = w
       /\ file' = IF w > 0 THEN FileImage(rx_buf, w) ELSE file
       /\ IF w # len - 2
            THEN pabort("Not all bytes written to output file")
            ELSE Goto("close_out")
  /\ UNCHANGED <<inputs, fd, len, bufs, loop, stats, report, fileOpened, bus, oob>>

\* close(fd)
CloseOutput ==
  /\ pc = "close_out"
  /\ fd' = "closed"
  /\ Goto("free_tx")
  /\ UNCHANGED <<inputs, ret, len, bufs, loop, stats, report, out, bus, oob>>

\* ---------------------------------------------------------------- the end

\* if (tr.tx_buf) free((void*)tr.tx_buf)
FreeTx ==
  /\ pc = "free_tx"
  /\ heap' = heap \ {"tx_buf"}
  /\ Goto("free_rx")
  /\ UNCHANGED <<inputs, fd, ret, len, tx_buf, rx_buf, loop, stats, report, out,
                 bus, oob>>

\* FreeRx that frees tr.tx_buf a second time and leaves rx_buf allocated.
FreeRxWrongBlock ==
  /\ pc = "free_rx"
  /\ heap' = heap \ {"tx_buf"}
  /\ Goto("return")
  /\ UNCHANGED <<inputs, fd, ret, len, tx_buf, rx_buf, loop, stats, report, out,
                 bus, oob>>

\* if (tr.rx_buf) free((void*)tr.rx_buf)
FreeRx ==
  /\ pc = "free_rx"
  /\ heap' = heap \ {"rx_buf"}
  /\ Goto("return")
  /\ UNCHANGED <<inputs, fd, ret, len, tx_buf, rx_buf, loop, stats, report, out,
                 bus, oob>>

\* return ret
Return ==
  /\ pc = "return"
  /\ pc' = "done"
  /\ exit' = [how |-> "return", status |-> ExitCode(ret)]
  /\ err' = err
  /\ UNCHANGED <<inputs, fd, ret, len, bufs, loop, stats, report, out, bus, oob>>

Next ==
  \/ OpenDevice
  \/ SetMode
  \/ GetMode
  \/ SetSpeed
  \/ GetSpeed
  \/ ComputeLen
  \/ MallocTx
  \/ MallocRx
  \/ FillWord
  \/ FillDone
  \/ Transfer
  \/ CloseDevice
  \/ StatStep
  \/ StatDone
  \/ ReportLine
  \/ ReportDone
  \/ SkipOutput
  \/ OpenOutput
  \/ WriteOutput
  \/ CloseOutput
  \/ FreeTx
  \/ FreeRx
  \/ Return

Spec == Init /\ [][Next]_vars

\* ================================================================= claims

\* A plan the specification calls valid: a non-empty string of decimal
\* digits and a sample count of at least 1.
ValidPlan ==
  /\ L >= 1
  /\ \A k \in 1..L : channels[k] \in Digits
  /\ samples >= 1

\* The one exchange was issued and transferred the whole block.
FullTransfer == xfers = 1 /\ xferRet = len

InPlan(ch) == \E k \in 1..L : ChanIndex(channels[k]) = ch

\* The statistics arrays as main() found them.
StatsUntouched ==
  \A c \in 0..(NSlots - 1) : min[c] = Indet /\ max[c] = Indet /\ sum[c] = Indet

\* The positions 0 .. L*samples-1 of the decoded sequence that map to ch.
SlotsOf(ch) ==
  {w \in 0..(L * samples - 1) : ChanIndex(channels[(w % L) + 1]) = ch}

DecodedAt(w) == LoadSample(rx_buf, 2 + 2 * w)

RECURSIVE SumOver(_)
SumOver(S) ==
  IF S = {} THEN 0
  ELSE LET w == CHOOSE x \in S : TRUE IN DecodedAt(w) + SumOver(S \ {w})

\* C1: once the statistics loop has finished for a valid plan and a complete
\* transfer, every channel of the plan has min <= sum / samples <= max,
\* repeated channels included.
C1_MinAvgMax ==
  (ValidPlan /\ FullTransfer /\ pc = "report") =>
    \A ch \in 0..(NSlots - 1) :
      InPlan(ch) =>
        /\ min[ch] <= sum[ch] \div samples
        /\ sum[ch] \div samples <= max[ch]

\* Number of positions of the channel string that map to ch.
Occurrences(ch) == Cardinality({k \in 1..L : ChanIndex(channels[k]) = ch})

\* C1 (amended): in the report of a valid plan, whatever was received, every
\* line has min <= average, and average <= max on the line of every channel
\* that occurs at exactly one position of the channel string.
C1_MinAvgMaxSinglePosition ==
  ValidPlan =>
    \A k \in 1..Len(report) :
      /\ report[k].min <= report[k].avg
      /\ Occurrences(report[k].ch) = 1 => report[k].avg <= report[k].max

\* C1 witness: the report of a valid plan is complete and some line has its
\* average strictly between min and max.
C1_Witness ==
  /\ ValidPlan /\ FullTransfer /\ pc = "out"
  /\ \E k \in 1..Len(report) :
       report[k].min < report[k].avg /\ report[k].avg < report[k].max

KeptSlots(ch) ==
  LET first == {w \in SlotsOf(ch) : w < L}
      last == CHOOSE w \in first : \A v \in first : v <= w
  IN  {w \in SlotsOf(ch) : w >= last}

C3_ShortTransferAborts ==
  (ValidPlan /\ xfers = 1 /\ xferRet < len) =>
    /\ pc = "aborted"
    /\ err = "Can't send spi message"
    /\ StatsUntouched
    /\ report = <<>>
    /\ ~fileOpened
    /\ file = <<>>

\* C4: with an empty channel string, a non-digit in it, or a sample count
\* below 1, no exchange is issued, no statistics slot is written, no line is
\* reported and the invocation does not complete normally.
C4_InvalidPlanRejected ==
  (~ValidPlan) =>
    /\ xfers = 0
    /\ StatsUntouched
    /\ report = <<>>
    /\ pc # "done"

\* n is exactly L*2*samples + 2 (stated without forming the product).
ExactLen(n) ==
  /\ n >= 2
  /\ (n - 2) % (2 * L) = 0
  /\ (n - 2) \div (2 * L) = samples

\* C5: for a valid plan both blocks are L*2*samples + 2 bytes long and no
\* fill store or decode load falls outside its block.
C5_BlocksFitThePlan ==
  ValidPlan =>
    /\ "tx_buf" \in heap => ExactLen(Len(tx_buf))
    /\ "rx_buf" \in heap => ExactLen(Len(rx_buf))
    /\ ~oob

\* The distinct channel indices of the plan, in order of first appearance.
RECURSIVE FirstAppearances(_)
FirstAppearances(cs) ==
  IF cs = <<>> THEN <<>>
  ELSE LET front == FirstAppearances(SubSeq(cs, 1, Len(cs) - 1))
           ch == ChanIndex(cs[Len(cs)])
       IN  IF \E k \in 1..Len(front) : front[k] = ch
             THEN front
             ELSE Append(front, ch)

\* C6: the finished report of a valid plan has one line per distinct channel
\* index, in order of first appearance in the channel string.
C6_OneLinePerChannel ==
  (ValidPlan /\ FullTransfer /\ pc = "out") =>
    [k \in 1..Len(report) |-> report[k].ch] = FirstAppearances(channels)

HeldAtAbort(s) ==
  CASE s = "Can't open device" -> [fd |-> "none", heap |-> {}]
    [] s \in {"Can't set spi mode", "Can't get spi mode",
              "Can't set max speed hz", "Can't get max speed hz",
              "Cannot allocate tx_buf\n"} -> [fd |-> "device", heap |-> {}]
    [] s = "Cannot allocate rx_buf\n" -> [fd |-> "device", heap |-> {"tx_buf"}]
    [] s = "Can't send spi message" ->
         [fd |-> "device", heap |-> {"tx_buf", "rx_buf"}]
    [] s = "could not open output file" ->
         [fd |-> "none", heap |-> {"tx_buf", "rx_buf"}]
    [] s = "Not all bytes written to output file" ->
         [fd |-> "output", heap |-> {"tx_buf", "rx_buf"}]

C8_FileIsRxWithoutPrefix ==
  /\ (output_file # NULL /\ pc \in {"close_out", "free_tx", "free_rx", "return", "done"}) =>
       /\ Len(file) = len - 2
       /\ \A k \in 1..(len - 2) : file[k] = rx_buf[k + 2]
  /\ (fileOpened /\ pc # "write" /\ Len(file) < len - 2) =>
       (pc = "aborted" /\ err = "Not all bytes written to output file")
  /\ output_file = NULL => (~fileOpened /\ file = <<>> /\ fd # "output")

\* C8 witness: a completed run of a valid plan whose file holds samples.
C8_Witness ==
  ValidPlan /\ FullTransfer /\ pc = "done" /\ output_file # NULL /\ Len(file) >= 4

\* C9: in the block the exchange clocks out for a valid plan, the transmit
\* word at position i*L + j is channels[j] << 3 for every i, j, and the two
\* bytes after the last command word are zero.
C9_TxBlockAtExchange ==
  (ValidPlan /\ FullTransfer) =>
    /\ \A w \in 0..(L * samples - 1) :
         HostWord(sent[2 * w + 1], sent[2 * w + 2])
           = CommandWord(channels[(w % L) + 1])
    /\ sent[len - 1] = 0
    /\ sent[len] = 0

\* C10: a run of a valid plan in which the device was configured, the whole
\* block was transferred and the optional file was fully written exits with
\* status 0; an aborted run exits with a non-zero status.
C10_ExitStatus ==
  /\ (ValidPlan /\ FullTransfer /\ pc = "done") => exit.status = 0
  /\ pc = "aborted" => exit.status # 0

====
